---- MODULE Spec2Model ----
(***************************************************************************)
(* Model of the shoe-analysis route handlers of ggracesarisa/Test-API.     *)
(*                                                                         *)
(* The repository holds four versions of one Next.js route handler:       *)
(*   "free_text"       src/src/app/api/analyze-shoe/route.ts, lines 1-123  *)
(*   "structured"      src/src/app/api/analyze-shoe/route.ts, lines 124-255*)
(*   "structured_cors" src/unnamed/part_000                                *)
(*   "context_aware"   src/unnamed/part_001                                *)
(* One behaviour of the model is one invocation of POST of one version.    *)
(* The handler is cut at its phases: validating the form data, encoding    *)
(* the image, calling the provider, extracting the text of the reply and   *)
(* normalizing that text.                                                  *)
(*                                                                         *)
(* JavaScript values are records tagged by their type in the field t.      *)
(* A text of the provider is a sequence of tokens together with the body   *)
(* the token "V" stands for:                                               *)
(*   "F"  three backticks, a code fence                                    *)
(*   "J"  the four letters json                                            *)
(*   "S"  one white-space character (of \s, of trim and of JSON)           *)
(*   "V"  the text of the body, which is JSON text or prose                *)
(***************************************************************************)
EXTENDS Integers, Sequences, FiniteSets, TLC

VARIABLES
    variant,        \* which version of the handler runs
    request,        \* the multipart form data of the request
    pc,             \* the phase the invocation is in
    imageFile,      \* let imageFile: the validated upload
    context,        \* the numbers humidity and temperature (context_aware)
    imagePart,      \* the inline data part built from the image
    response,       \* the provider's reply
    generatedText,  \* candidate?.content?.parts?.[0]?.text
    providerCalls,  \* the calls of ai.models.generateContent, in order
    thrown,         \* the exception an awaited operation raised, if any
    log,            \* what console.error wrote
    result          \* the NextResponse the handler returned

vars == <<variant, request, pc, imageFile, context, imagePart, response,
          generatedText, providerCalls, thrown, log, result>>

----------------------------------------------------------------------------
(* Bounds of the model *)

\* longest text of a form field, in characters
MaxFieldLen == 1
\* longest provider text of a whole invocation, in tokens
MaxTextLen == 2
\* longest provider text the normalization alone is run on, in tokens
MaxNormLen == 5

\* "เวลาอบรวมต้องไม่เกิน 60 นาที": the ceiling the prompt states
PolicyCeilingMinutes == 60

----------------------------------------------------------------------------
(* JavaScript values *)

Undefined == [t |-> "undefined"]
Null == [t |-> "null"]
Str(s) == [t |-> "string", s |-> s]
Num(n) == [t |-> "number", n |-> n]
NaN == [t |-> "NaN"]
FileOf(name, size, type) == [t |-> "file", name |-> name, size |-> size, type |-> type]

Range(s) == {s[i] : i \in 1..Len(s)}

SeqsUpTo(S, n) == UNION {[1..k -> S] : k \in 0..n}

\* ToBoolean of a value the handlers test
Truthy(x) ==
    CASE x.t = "undefined" -> FALSE
      [] x.t = "null" -> FALSE
      [] x.t = "NaN" -> FALSE
      [] x.t = "string" -> x.s # <<>>
      [] x.t = "number" -> x.n # 0
      [] OTHER -> TRUE

----------------------------------------------------------------------------
(* The versions *)

Variants == {"free_text", "structured", "structured_cors", "context_aware"}
StructuredVariants == {"structured", "structured_cors", "context_aware"}
CorsVariants == {"structured_cors", "context_aware"}

corsHeaders ==
    [allowOrigin |-> "*", allowMethods |-> "POST, OPTIONS",
     allowHeaders |-> "Content-Type, Authorization"]

NoHeaders == [none |-> TRUE]

\* the init object each NextResponse.json of a version is given
HeadersOf(v) == IF v \in CorsVariants THEN corsHeaders ELSE NoHeaders

ModelId == "gemini-2.5-flash"

\* export function OPTIONS(): the answer to the preflight request of a
\* cross-origin version
OPTIONS == [status |-> 200, headers |-> corsHeaders, body |-> <<>>]

----------------------------------------------------------------------------
(* Requests *)

FieldChars == {"3", " ", "a"}
Digits == {"3"}
DigitValue(c) == CASE c = "3" -> 3

FieldTexts == SeqsUpTo(FieldChars, MaxFieldLen)

FileSizes == {0, 1}
Files == {FileOf("shoe.jpg", n, ty) : n \in FileSizes, ty \in {"", "image/png"}}

\* what formData.get gives: null, a string or a File
FileEntries == {Null, Str(<<>>), Str(<<"a">>)} \cup Files
FieldEntries == {Null, FileOf("t.txt", 1, "")} \cup {Str(s) : s \in FieldTexts}

\* the form data a version reads: only context_aware reads the two readings
RequestsOf(v) ==
    IF v = "context_aware"
    THEN [file : FileEntries, temperature : FieldEntries, humidity : FieldEntries]
    ELSE [file : FileEntries, temperature : {Null}, humidity : {Null}]

----------------------------------------------------------------------------
(* Number(value) of a form entry *)

RECURSIVE StripLeft(_, _)
StripLeft(s, c) ==
    IF s # <<>> /\ Head(s) = c THEN StripLeft(Tail(s), c) ELSE s

RECURSIVE StripRight(_, _)
StripRight(s, c) ==
    IF s # <<>> /\ s[Len(s)] = c THEN StripRight(SubSeq(s, 1, Len(s) - 1), c) ELSE s

\* String.prototype.trim, and the white space StringToNumber skips
TrimOf(s, c) == StripRight(StripLeft(s, c), c)

RECURSIVE DecimalValue(_)
DecimalValue(s) ==
    IF s = <<>> THEN 0
    ELSE 10 * DecimalValue(SubSeq(s, 1, Len(s) - 1)) + DigitValue(s[Len(s)])

\* StringToNumber: white space is skipped, the empty text is 0, decimal digits
\* are their value and any other text is NaN
StringToNumber(s) ==
    LET body == TrimOf(s, " ") IN
    IF body = <<>> THEN Num(0)
    ELSE IF Range(body) \subseteq Digits THEN Num(DecimalValue(body))
    ELSE NaN

\* Number(entry): a File is converted through its string "[object File]"
NumberOf(entry) ==
    IF entry.t = "string" THEN StringToNumber(entry.s) ELSE NaN

\* raw ? Number(raw) : undefined
ReadingOf(raw) == IF Truthy(raw) THEN NumberOf(raw) ELSE Undefined

isNaN(x) == x.t = "NaN"

----------------------------------------------------------------------------
(* Provider texts and JSON *)

Tokens == {"F", "J", "S", "V"}

JObject(shoe, minutes) ==
    [t |-> "object", shoe_type |-> shoe, recommended_time_minutes |-> minutes]
JArray == [t |-> "array"]

\* the values a member of the object can have; Undefined is a missing member
ShoeValues == {Undefined, Str(<<>>), Str(<<"Sneaker">>), Num(5)}
MinuteValues == {Undefined, Num(40), Num(PolicyCeilingMinutes + 1), Str(<<"40">>)}

JsonValues ==
    {JObject(s, m) : s \in ShoeValues, m \in MinuteValues}
        \cup {Null, JArray, Str(<<"abc">>)}

Prose == [json |-> FALSE]
JsonBody(v) == [json |-> TRUE, value |-> v]
Bodies == {Prose} \cup {JsonBody(v) : v \in JsonValues}

TextOf(tokens, body) == [t |-> "string", s |-> tokens, body |-> body]

\* the bodies a text of these tokens can have: without "V" there is none to vary
BodiesOf(tk) == IF "V" \in Range(tk) THEN Bodies ELSE {Prose}

\* /^```json\s*/ replaced by '': an opening fence tagged json and the white
\* space after it
StripOpenFence(tk) ==
    IF Len(tk) >= 2 /\ tk[1] = "F" /\ tk[2] = "J"
    THEN StripLeft(SubSeq(tk, 3, Len(tk)), "S")
    ELSE tk

\* a cleaning that leaves the closing fence in place
StripCloseFenceKept(tk) == tk

\* /\s*```$/ replaced by '': a fence at the end and the white space before it
StripCloseFence(tk) ==
    IF tk # <<>> /\ tk[Len(tk)] = "F"
    THEN StripRight(SubSeq(tk, 1, Len(tk) - 1), "S")
    ELSE tk

\* generatedText.trim().replace(/^```json\s*/, '').replace(/\s*```$/, '')
CleanedText(tk) == StripCloseFence(StripOpenFence(TrimOf(tk, "S")))

SyntaxError == [ok |-> FALSE]

\* JSON.parse: one JSON value with white space around it, or a SyntaxError
JSONParse(tk, body) ==
    IF TrimOf(tk, "S") = <<"V">> /\ body.json
    THEN [ok |-> TRUE, value |-> body.value]
    ELSE SyntaxError

\* value.name, for a value that is neither null nor undefined
Member(value, name) ==
    IF value.t = "object" THEN value[name] ELSE Undefined

typeof(x) ==
    CASE x.t \in {"number", "NaN"} -> "number"
      [] x.t = "string" -> "string"
      [] x.t = "undefined" -> "undefined"
      [] OTHER -> "object"

\* JSON.parse of the cleaned text and the check of the parsed object: the
\* object, or the failure the inner catch block answers
CheckedObject(cleaned, body) ==
    LET parsed == JSONParse(cleaned, body) IN
    IF ~parsed.ok THEN [ok |-> FALSE, why |-> "SyntaxError"]
    ELSE IF parsed.value.t = "null" THEN [ok |-> FALSE, why |-> "TypeError"]
    ELSE IF \/ ~Truthy(Member(parsed.value, "shoe_type"))
            \/ typeof(Member(parsed.value, "recommended_time_minutes")) # "number"
         THEN [ok |-> FALSE, why |-> "Error"]
    ELSE [ok |-> TRUE,
          shoe_type |-> Member(parsed.value, "shoe_type"),
          recommended_time_minutes |-> Member(parsed.value, "recommended_time_minutes")]

\* the try block of the normalization: const cleanedText is computed once
AnalysisOf(text) ==
    CHOOSE analysis \in {CheckedObject(cleanedText, text.body) :
                            cleanedText \in {CleanedText(text.s)}} : TRUE

----------------------------------------------------------------------------
(* Provider replies *)

Part(text) == [text |-> text]
Candidate(parts) == [parts |-> parts]
Feedback(reason, ratings) ==
    [t |-> "object", blockReason |-> reason, safetyRatings |-> ratings]

SomeRatings == [t |-> "array", items |-> <<"HARM_CATEGORY_DANGEROUS_CONTENT">>]

Feedbacks ==
    {Undefined, Feedback(Undefined, Undefined),
     Feedback(Str(<<"SAFETY">>), SomeRatings), Feedback(Str(<<"OTHER">>), Undefined)}

SampleText == TextOf(<<"V">>, JsonBody(JObject(Str(<<"Sneaker">>), Num(40))))

\* replies whose first candidate's first part has no text
TextlessCandidates ==
    {<<>>, <<Candidate(<<>>)>>, <<Candidate(<<Part(Undefined)>>)>>,
     <<Candidate(<<Part(Undefined), Part(SampleText)>>)>>,
     <<Candidate(<<>>), Candidate(<<Part(SampleText)>>)>>}

\* the reply of the provider
Reply(candidates, feedback) ==
    [candidates |-> candidates, promptFeedback |-> feedback]

\* response.candidates?.[0]?.content?.parts?.[0]?.text
FirstText(r) ==
    IF r.candidates = <<>> THEN Undefined
    ELSE IF r.candidates[1].parts = <<>> THEN Undefined
    ELSE r.candidates[1].parts[1].text

ErrorOf(message) == [t |-> "error", message |-> message]

\* what an awaited operation can throw: an Error, or a value that is no Error
Throwables == {ErrorOf("fetch failed"), Str(<<"a">>)}

----------------------------------------------------------------------------
(* Responses of the handler *)

NoResult == [status |-> 0]

\* NextResponse.json(body, { status, headers })
Json(v, status, body) == [status |-> status, headers |-> HeadersOf(v), body |-> body]

MissingFileMessage == <<"Invalid or missing file upload (expecting field name \"file\").">>
EmptyFileMessage == <<"Uploaded file is empty.">>
ContextMessage == <<"Missing or invalid humidity/temperature. Both must be numeric.">>

ParseFailureMessage(v) ==
    IF v = "context_aware"
    THEN <<"Analysis succeeded but the JSON response from Gemini could not be parsed.">>
    ELSE <<"Analysis successful but failed to parse JSON output from Gemini. Check prompt compliance.">>

\* the template literal of the 403 response: its fixed text, then the reason
\* (a message is the sequence of the pieces of its text)
BlockedMessage(v, reason) ==
    <<IF v = "context_aware"
      THEN "Content blocked due to safety settings: "
      ELSE "Content was blocked due to safety settings: ">> \o reason.s

NoTextMessage(v) ==
    IF v = "context_aware"
    THEN <<"Gemini did not return valid text. See debug info.">>
    ELSE <<"Gemini did not return any text output or the response structure was unexpected.">>

\* an outermost catch block that answers without the headers
GlobalCatchNoHeaders(v, error) ==
    [status |-> 500, headers |-> NoHeaders,
     body |-> [error |-> <<"Internal server error occurred while processing your request.">>,
               details |-> IF error.t = "error" THEN error.message ELSE "Unknown error."]]

\* the outermost catch block
GlobalCatch(v, error) ==
    Json(v, 500,
         [error |-> IF v = "context_aware"
                    THEN <<"Internal server error occurred while processing your request.">>
                    ELSE <<"Failed to process the request due to an internal server error.">>,
          details |-> IF error.t = "error" THEN error.message
                      ELSE IF v = "context_aware" THEN "Unknown error."
                      ELSE "An unknown error occurred."])

\* a 403 response that names a fixed reason and drops the ratings
BlockedResponseFixedReason(v, feedback) ==
    Json(v, 403,
         [error |-> BlockedMessage(v, Str(<<"SAFETY">>)),
          safety_ratings |-> Undefined])

\* the 403 response of a blocked prompt
BlockedResponse(v, feedback) ==
    Json(v, 403,
         [error |-> BlockedMessage(v, feedback.blockReason),
          safety_ratings |-> feedback.safetyRatings])

\* a 500 response that leaves the reply out
NoTextResponseBare(v, reply) ==
    Json(v, 500, [error |-> NoTextMessage(v)])

\* the 500 response of a reply without text
NoTextResponse(v, reply) ==
    Json(v, 500, [error |-> NoTextMessage(v), full_response_debug |-> reply])

\* the 500 response of the inner catch block
ParseFailureResponse(v, text) ==
    Json(v, 500, [error |-> ParseFailureMessage(v), gemini_raw_output |-> text])

\* the 200 response of the free-text version
FreeTextResponse(v, file, text) ==
    Json(v, 200,
         [filename |-> file.name, filesize |-> file.size,
          gemini_analysis |-> TextOf(TrimOf(text.s, "S"), text.body),
          model_used |-> ModelId])

\* a 200 response that leaves the two readings out in every version
SuccessResponseWithoutContext(v, file, ctx, analysis) ==
    Json(v, 200,
         [filename |-> file.name, filesize |-> file.size,
          shoe_type |-> analysis.shoe_type,
          recommended_time_minutes |-> analysis.recommended_time_minutes,
          model_used |-> ModelId])

\* the 200 response of a structured version
SuccessResponse(v, file, ctx, analysis) ==
    Json(v, 200,
    IF v = "context_aware"
    THEN [filename |-> file.name, filesize |-> file.size,
          shoe_type |-> analysis.shoe_type,
          recommended_time_minutes |-> analysis.recommended_time_minutes,
          temperature |-> ctx.temperature, humidity |-> ctx.humidity,
          model_used |-> ModelId]
    ELSE [filename |-> file.name, filesize |-> file.size,
          shoe_type |-> analysis.shoe_type,
          recommended_time_minutes |-> analysis.recommended_time_minutes,
          model_used |-> ModelId])

----------------------------------------------------------------------------
(* The phases of POST *)

NoContext == [humidity |-> Undefined, temperature |-> Undefined]

\* the test the upload must pass to be taken as the image
InvalidFileEntry(v, entry) ==
    IF v = "free_text"
    THEN ~Truthy(entry) \/ typeof(entry) = "string"
    ELSE ~Truthy(entry) \/ typeof(entry) = "string" \/ entry.t # "file"

\* a handler that lost the test of the size
EmptyFileNever(file) == FALSE

\* !imageFile.size
EmptyFile(file) == ~Truthy(Num(file.size))

\* the test of the two readings
InvalidContext(ctx) ==
    \/ ctx.humidity = Undefined
    \/ ctx.temperature = Undefined
    \/ isNaN(ctx.humidity)
    \/ isNaN(ctx.temperature)

\* the handler returns: no later phase runs
Return(r) ==
    /\ result' = r
    /\ pc' = "Done"

\* a handler without the outermost catch block: the exception leaves it
ThrowEscapes(e) ==
    /\ thrown' = e
    /\ log' = log
    /\ result' = result
    /\ pc' = "Done"

\* an awaited operation rejects and the outermost catch block answers
Throw(e) ==
    /\ thrown' = e
    /\ log' = Append(log, "Global Catch Error:")
    /\ Return(GlobalCatch(variant, e))

\* await request.formData(), then the checks of the file and of the readings
Validating ==
    /\ pc = "Validating"
    /\ UNCHANGED <<variant, request, imagePart, response, generatedText, providerCalls>>
    /\ \/ /\ \E e \in Throwables : Throw(e)
          /\ UNCHANGED <<imageFile, context>>
       \/ /\ UNCHANGED <<thrown, log>>
          /\ LET fileEntry == request.file
                 ctx == [humidity |-> ReadingOf(request.humidity),
                         temperature |-> ReadingOf(request.temperature)]
             IN  IF InvalidFileEntry(variant, fileEntry)
                 THEN /\ Return(Json(variant, 400, [error |-> MissingFileMessage]))
                      /\ UNCHANGED <<imageFile, context>>
                 ELSE IF EmptyFile(fileEntry)
                 THEN /\ imageFile' = fileEntry
                      /\ Return(Json(variant, 400, [error |-> EmptyFileMessage]))
                      /\ UNCHANGED context
                 ELSE IF variant = "context_aware" /\ InvalidContext(ctx)
                 THEN /\ imageFile' = fileEntry
                      /\ context' = ctx
                      /\ Return(Json(variant, 400, [error |-> ContextMessage]))
                 ELSE /\ imageFile' = fileEntry
                      /\ context' = IF variant = "context_aware" THEN ctx ELSE NoContext
                      /\ result' = result
                      /\ pc' = "Encoding"

\* the length of the base64 text of n bytes
Base64Length(n) == 4 * ((n + 2) \div 3)

\* fileToGenerativePart, once file.arrayBuffer() has resolved
GenerativePart(file) ==
    [data |-> [base64 |-> Base64Length(file.size)],
     mimeType |-> IF file.type # "" THEN file.type ELSE "image/jpeg"]

\* PROMPT, or buildPrompt(temperature, humidity)
PromptOf(v, ctx) ==
    IF v = "context_aware"
    THEN [template |-> "buildPrompt", humidity |-> ctx.humidity, temperature |-> ctx.temperature]
    ELSE [template |-> "PROMPT"]

\* the argument of ai.models.generateContent
GenerateContentCall(v, ctx, part) ==
    [model |-> ModelId, role |-> "user", parts |-> <<PromptOf(v, ctx), part>>]

\* a handler that catches a failure of the encoding and calls the provider
\* all the same
EncodingIgnoresFailure ==
    /\ pc = "Encoding"
    /\ UNCHANGED <<variant, request, imageFile, context, response, generatedText>>
    /\ \/ /\ \E e \in Throwables : thrown' = e
          /\ pc' = "CallingProvider"
          /\ UNCHANGED <<imagePart, providerCalls, log, result>>
       \/ /\ imagePart' = GenerativePart(imageFile)
          /\ providerCalls' =
                Append(providerCalls, GenerateContentCall(variant, context, imagePart'))
          /\ pc' = "CallingProvider"
          /\ UNCHANGED <<thrown, log, result>>

\* await fileToGenerativePart(imageFile), then the call of the provider is made
Encoding ==
    /\ pc = "Encoding"
    /\ UNCHANGED <<variant, request, imageFile, context, response, generatedText>>
    /\ \/ /\ \E e \in Throwables : Throw(e)
          /\ UNCHANGED <<imagePart, providerCalls>>
       \/ /\ imagePart' = GenerativePart(imageFile)
          /\ providerCalls' =
                Append(providerCalls, GenerateContentCall(variant, context, imagePart'))
          /\ pc' = "CallingProvider"
          /\ UNCHANGED <<thrown, log, result>>

\* a handler that calls the provider again when the call is rejected
CallingProviderRetry ==
    /\ pc = "CallingProvider"
    /\ UNCHANGED <<variant, request, imageFile, context, imagePart, generatedText,
                   thrown, log, result>>
    /\ \/ /\ providerCalls' =
                Append(providerCalls, GenerateContentCall(variant, context, imagePart))
          /\ UNCHANGED <<response, pc>>
       \/ /\ \E c \in TextlessCandidates, f \in Feedbacks : response' = Reply(c, f)
          /\ pc' = "Extracting"
          /\ UNCHANGED providerCalls

\* await ai.models.generateContent: the provider rejects the call, or replies
\* without a text, or with a text of at most MaxTextLen tokens
CallingProvider ==
    /\ pc = "CallingProvider"
    /\ UNCHANGED <<variant, request, imageFile, context, imagePart, generatedText,
                   providerCalls>>
    /\ \/ /\ \E e \in Throwables : Throw(e)
          /\ UNCHANGED response
       \/ /\ \E c \in TextlessCandidates, f \in Feedbacks : response' = Reply(c, f)
          /\ pc' = "Extracting"
          /\ UNCHANGED <<thrown, log, result>>
       \/ /\ \E tk \in SeqsUpTo(Tokens, MaxTextLen), f \in Feedbacks :
                \E b \in BodiesOf(tk) :
                    response' = Reply(<<Candidate(<<Part(TextOf(tk, b))>>)>>, f)
          /\ pc' = "Extracting"
          /\ UNCHANGED <<thrown, log, result>>

\* the first text of the reply is read; without one the reply's feedback decides
Extracting ==
    /\ pc = "Extracting"
    /\ UNCHANGED <<variant, request, imageFile, context, imagePart, response,
                   providerCalls, thrown>>
    /\ generatedText' = FirstText(response)
    /\ LET feedback == response.promptFeedback IN
       IF Truthy(generatedText')
       THEN IF variant = "free_text"
            THEN /\ Return(FreeTextResponse(variant, imageFile, generatedText'))
                 /\ UNCHANGED log
            ELSE /\ pc' = "Normalizing"
                 /\ UNCHANGED <<log, result>>
       ELSE IF Truthy(feedback) /\ Truthy(feedback.blockReason)
       THEN /\ log' = IF variant = "free_text"
                      THEN Append(log, "Content Blocked:") ELSE log
            /\ Return(BlockedResponse(variant, feedback))
       ELSE /\ log' = Append(log, "Gemini failed to generate content:")
            /\ Return(NoTextResponse(variant, response))

\* the text is cleaned, parsed and checked: a failure of any of the three is
\* answered by the inner catch block
Normalizing ==
    /\ pc = "Normalizing"
    /\ UNCHANGED <<variant, request, imageFile, context, imagePart, response,
                   generatedText, providerCalls, thrown>>
    /\ \E analysis \in {AnalysisOf(generatedText)} :
       IF analysis.ok
       THEN /\ Return(SuccessResponse(variant, imageFile, context, analysis))
            /\ UNCHANGED log
       ELSE /\ log' = Append(log, "JSON Parsing Failed:")
            /\ Return(ParseFailureResponse(variant, generatedText))

----------------------------------------------------------------------------
(* One invocation of POST *)

Init ==
    /\ variant \in Variants
    /\ request \in RequestsOf(variant)
    /\ pc = "Validating"
    /\ imageFile = Undefined
    /\ context = NoContext
    /\ imagePart = Undefined
    /\ response = Undefined
    /\ generatedText = Undefined
    /\ providerCalls = <<>>
    /\ thrown = Undefined
    /\ log = <<>>
    /\ result = NoResult

Next ==
    \/ Validating
    \/ Encoding
    \/ CallingProvider
    \/ Extracting
    \/ Normalizing

Spec == Init /\ [][Next]_vars

----------------------------------------------------------------------------
(* The normalization alone, on longer texts *)

NormFile == FileOf("shoe.jpg", 1, "image/png")
NormContext(v) ==
    IF v = "context_aware"
    THEN [humidity |-> Num(3), temperature |-> Num(3)]
    ELSE NoContext

\* an invocation that has reached the normalization of a text of the provider
InitNorm ==
    /\ variant \in StructuredVariants
    /\ request = [file |-> NormFile,
                  temperature |-> IF variant = "context_aware" THEN Str(<<"3">>) ELSE Null,
                  humidity |-> IF variant = "context_aware" THEN Str(<<"3">>) ELSE Null]
    /\ pc = "Normalizing"
    /\ imageFile = NormFile
    /\ context = NormContext(variant)
    /\ imagePart = GenerativePart(NormFile)
    /\ \E tk \in SeqsUpTo(Tokens, MaxNormLen) \ {<<>>} :
          \E b \in BodiesOf(tk) : generatedText = TextOf(tk, b)
    /\ response = Reply(<<Candidate(<<Part(generatedText)>>)>>, Undefined)
    /\ providerCalls = <<GenerateContentCall(variant, context, imagePart)>>
    /\ thrown = Undefined
    /\ log = <<>>
    /\ result = NoResult

NextNorm == Normalizing

SpecNorm == InitNorm /\ [][NextNorm]_vars

----------------------------------------------------------------------------
(* The claims *)

\* the form data was parsed: formData() did not reject
FormParsed == pc # "Validating" /\ (thrown = Undefined \/ imageFile # Undefined)

\* no 'file' entry, a text value, or a file of size 0
NoUsableFile(entry) ==
    \/ entry.t = "null"
    \/ entry.t = "string"
    \/ entry.t = "file" /\ entry.size = 0

\* C1: in every version, a request whose form data has no 'file' entry, a text
\* as 'file' entry or a file of size 0 is answered with status 400 and a body
\* with an 'error' message, and no later phase is entered.
C1_NoUsableFileIs400 ==
    (FormParsed /\ NoUsableFile(request.file)) =>
        /\ pc = "Done"
        /\ result.status = 400
        /\ DOMAIN result.body = {"error"}
        /\ result.body.error \in {MissingFileMessage, EmptyFileMessage}

C1_Witness ==
    /\ pc = "Done"
    /\ thrown = Undefined
    /\ request.file.t = "file"
    /\ request.file.size = 0
    /\ result.status = 400
    /\ result.body.error = EmptyFileMessage

\* a form entry that is numeric text: decimal digits, white space around them
\* allowed; the empty text and blank text are not numeric
NumericEntry(entry) ==
    /\ entry.t = "string"
    /\ TrimOf(entry.s, " ") # <<>>
    /\ Range(TrimOf(entry.s, " ")) \subseteq Digits

\* the invocation ended without an exception and its file had passed the
\* checks of the upload
FileAccepted ==
    /\ pc = "Done"
    /\ thrown = Undefined
    /\ imageFile # Undefined
    /\ imageFile.size > 0

\* C2: in the context-aware version, a request with a valid file in which a
\* reading is absent or is not numeric (empty and blank text included) is
\* answered with status 400 and the message that names both readings.
C2_BadReadingsAre400 ==
    (/\ variant = "context_aware"
     /\ FileAccepted
     /\ ~(NumericEntry(request.temperature) /\ NumericEntry(request.humidity)))
        => /\ result.status = 400
           /\ result.body.error = ContextMessage

\* C3: in the structured versions every 200 response has
\* recommended_time_minutes at most 60.
C3_DurationWithinCeiling ==
    (variant \in StructuredVariants /\ pc = "Done" /\ result.status = 200)
        => result.body.recommended_time_minutes.n <= PolicyCeilingMinutes

\* the text, cleaned and parsed, is an object whose shoe_type is a string and
\* whose recommended_time_minutes is a number
WellTyped(text) ==
    LET parsed == JSONParse(CleanedText(text.s), text.body) IN
    /\ parsed.ok
    /\ parsed.value.t = "object"
    /\ parsed.value.shoe_type.t = "string"
    /\ parsed.value.recommended_time_minutes.t = "number"

\* the invocation of a structured version ended after a text was extracted
NormalizedText ==
    /\ variant \in StructuredVariants
    /\ pc = "Done"
    /\ thrown = Undefined
    /\ response # Undefined
    /\ Truthy(FirstText(response))

\* C4: in the structured versions the response is 200 only if the parsed text is
\* an object with a string shoe_type and a number recommended_time_minutes; in
\* every other case it is 500.
C4_FailClosedOnTypes ==
    NormalizedText =>
        /\ result.status = 200 => WellTyped(FirstText(response))
        /\ ~WellTyped(FirstText(response)) => result.status = 500

\* p is an opening fence line: white space, a fence, the tag json if tagged,
\* white space
OpeningFence(p, tagged) ==
    LET q == StripLeft(p, "S") IN
    /\ q # <<>>
    /\ q[1] = "F"
    /\ IF tagged
       THEN /\ Len(q) >= 2
            /\ q[2] = "J"
            /\ StripLeft(SubSeq(q, 3, Len(q)), "S") = <<>>
       ELSE StripLeft(Tail(q), "S") = <<>>

\* p is a closing fence: white space, a fence, white space
ClosingFence(p) ==
    LET q == StripLeft(p, "S") IN
    /\ q # <<>>
    /\ q[1] = "F"
    /\ StripLeft(Tail(q), "S") = <<>>

\* the tokens i..j of the text are wrapped in a fenced block
Wrapped(tk, i, j, tagged) ==
    /\ i <= j
    /\ OpeningFence(SubSeq(tk, 1, i - 1), tagged)
    /\ ClosingFence(SubSeq(tk, j + 1, Len(tk)))

\* the response is the success response of this analysis
SucceedsWith(analysis) ==
    /\ result.status = 200
    /\ result.body.shoe_type = analysis.shoe_type
    /\ result.body.recommended_time_minutes = analysis.recommended_time_minutes

\* C5 as claimed: a text that normalizes to R, wrapped in a fenced block whose
\* opening fence has a language tag or none, normalizes to R as well.
C5_AnyFenceRoundTrip ==
    pc = "Done" =>
        \A i, j \in 1..Len(generatedText.s) : \A tagged \in BOOLEAN :
            LET inner == TextOf(SubSeq(generatedText.s, i, j), generatedText.body) IN
            (Wrapped(generatedText.s, i, j, tagged) /\ AnalysisOf(inner).ok)
                => SucceedsWith(AnalysisOf(inner))

\* C5 as amended: a text that is the JSON text of a result R, with white space
\* around it and no fence of its own, wrapped in a fenced block whose opening
\* fence has the tag json, normalizes to R.
C5_JsonFenceRoundTrip ==
    pc = "Done" =>
        \A i, j \in 1..Len(generatedText.s) :
            LET inner == SubSeq(generatedText.s, i, j) IN
            (/\ Wrapped(generatedText.s, i, j, TRUE)
             /\ CheckedObject(inner, generatedText.body).ok)
                => SucceedsWith(CheckedObject(inner, generatedText.body))

C5_Witness ==
    /\ pc = "Done"
    /\ generatedText.s = <<"F", "J", "S", "V", "F">>
    /\ result.status = 200
    /\ result.body.shoe_type = Str(<<"Sneaker">>)

\* C6: in the structured versions a text that does not parse as the required
\* structure (a string label and a number duration) is answered with status
\* 500 and gemini_raw_output equal to the provider's text as it came.
C6_UnparsedTextReturnedRaw ==
    (NormalizedText /\ ~WellTyped(FirstText(response))) =>
        /\ result.status = 500
        /\ result.body.gemini_raw_output = FirstText(response)

\* the provider replied and the first part of the first candidate has no text
TextlessReply ==
    /\ pc = "Done"
    /\ response # Undefined
    /\ ~Truthy(FirstText(response))

\* the prompt feedback of the reply carries a block reason
HasBlockReason(reply) ==
    /\ reply.promptFeedback # Undefined
    /\ reply.promptFeedback.blockReason # Undefined

\* C7: a reply without text whose prompt feedback carries a block reason is
\* answered with status 403, an error message that ends in that reason, and
\* the safety ratings of the feedback.
C7_BlockedIs403 ==
    (TextlessReply /\ HasBlockReason(response)) =>
        /\ result.status = 403
        /\ SubSeq(result.body.error, 2, Len(result.body.error))
                = response.promptFeedback.blockReason.s
        /\ result.body.safety_ratings = response.promptFeedback.safetyRatings

C7_Witness ==
    /\ TextlessReply
    /\ HasBlockReason(response)
    /\ response.promptFeedback.blockReason = Str(<<"OTHER">>)
    /\ result.status = 403

\* C8: the provider is called at most once in an invocation: not at all before
\* the image is encoded nor when the response is 400, and exactly once from
\* then on, whatever the provider answers.
C8_ProviderCalledAtMostOnce ==
    /\ Len(providerCalls) <= 1
    /\ result.status = 400 => Len(providerCalls) = 0
    /\ imagePart = Undefined => Len(providerCalls) = 0
    /\ imagePart # Undefined => Len(providerCalls) = 1
    /\ pc \in {"CallingProvider", "Extracting", "Normalizing"} => imagePart # Undefined

C8_Witness ==
    /\ pc = "Done"
    /\ result.status = 500
    /\ thrown # Undefined
    /\ imagePart # Undefined
    /\ Len(providerCalls) = 1

\* C9: an exception of an awaited operation is answered with status 500, 'error'
\* and 'details'; an invocation that has not ended has sent no response and can
\* take a step, and one that has ended has sent one response, with status 200,
\* 400, 403 or 500, and takes no further step.
C9_EveryFailureAnswered ==
    /\ thrown # Undefined =>
            /\ pc = "Done"
            /\ result.status = 500
            /\ DOMAIN result.body = {"error", "details"}
    /\ pc # "Done" => (result = NoResult /\ ENABLED Next)
    /\ pc = "Done" => (result.status \in {200, 400, 403, 500} /\ ~ENABLED Next)

C9_Witness ==
    /\ pc = "Done"
    /\ thrown = Str(<<"a">>)
    /\ Len(providerCalls) = 1
    /\ result.status = 500
    /\ result.body.details \in {"Unknown error.", "An unknown error occurred."}

\* C10: a reply without text whose prompt feedback carries no block reason is
\* answered with status 500 and the whole reply as full_response_debug.
C10_NoTextIs500 ==
    (TextlessReply /\ ~HasBlockReason(response)) =>
        /\ result.status = 500
        /\ "full_response_debug" \in DOMAIN result.body
        /\ result.body.full_response_debug = response

C10_Witness ==
    /\ TextlessReply
    /\ response.promptFeedback = Feedback(Undefined, Undefined)
    /\ response.candidates = <<Candidate(<<Part(Undefined), Part(SampleText)>>)>>
    /\ result.status = 500

\* the members a 200 response of a structured version has
SuccessMembers(v) ==
    {"filename", "filesize", "shoe_type", "recommended_time_minutes", "model_used"}
        \cup (IF v = "context_aware" THEN {"temperature", "humidity"} ELSE {})

\* C11: a 200 response of a structured version carries the name and the size of
\* the uploaded file, shoe_type and recommended_time_minutes as they stand in
\* the JSON text of the provider, the model identifier gemini-2.5-flash and, in
\* the context-aware version, temperature and humidity as the numbers the
\* submitted texts convert to.
C11_SuccessEchoesInputs ==
    (variant \in StructuredVariants /\ pc = "Done" /\ result.status = 200) =>
        LET text == FirstText(response) IN
        /\ text.body.json
        /\ text.body.value.t = "object"
        /\ DOMAIN result.body = SuccessMembers(variant)
        /\ result.body.filename = request.file.name
        /\ result.body.filesize = request.file.size
        /\ result.body.shoe_type = text.body.value.shoe_type
        /\ result.body.recommended_time_minutes =
                text.body.value.recommended_time_minutes
        /\ result.body.model_used = "gemini-2.5-flash"
        /\ variant = "context_aware" =>
                /\ result.body.temperature = NumberOf(request.temperature)
                /\ result.body.humidity = NumberOf(request.humidity)
                /\ result.body.temperature.t = "number"
                /\ result.body.humidity.t = "number"

C11_Witness ==
    /\ variant = "context_aware"
    /\ pc = "Done"
    /\ request.temperature = Str(<<"3">>)
    /\ request.humidity = Str(<<"3">>)
    /\ result.status = 200
    /\ FirstText(response) = SampleText
    /\ result.body.temperature = Num(3)
    /\ result.body.shoe_type = Str(<<"Sneaker">>)
    /\ result.body.filename = "shoe.jpg"

\* the phases of an invocation, in their order
Phases == <<"Validating", "Encoding", "CallingProvider", "Extracting", "Normalizing">>

\* the phase after phase p, or "Done" after the last one
Successor(p) ==
    IF \E i \in 1..(Len(Phases) - 1) : Phases[i] = p
    THEN Phases[(CHOOSE i \in 1..(Len(Phases) - 1) : Phases[i] = p) + 1]
    ELSE "Done"

\* the phase whose success is answered with 200
LastPhase(v) == IF v = "free_text" THEN "Extracting" ELSE "Normalizing"

\* one step of an invocation keeps the order of the phases
PhaseStep ==
    /\ pc \in Range(Phases)
    /\ pc' \in {Successor(pc), "Done"}
    /\ pc' # "Done" =>
            /\ thrown' = Undefined
            /\ result' = NoResult
    /\ pc' = "Done" =>
            /\ result'.status \in {200, 400, 403, 500}
            /\ result'.status = 200 => (pc = LastPhase(variant) /\ thrown' = Undefined)
    /\ thrown' # Undefined =>
            /\ pc' = "Done"
            /\ result'.status = 500
    /\ pc' = "Encoding" => (imageFile'.t = "file" /\ imageFile'.size > 0)
    /\ pc' = "CallingProvider" => imagePart' # Undefined
    /\ pc' = "Extracting" => response' # Undefined
    /\ pc' = "Normalizing" =>
            /\ generatedText' = FirstText(response)
            /\ generatedText'.t = "string"
            /\ generatedText'.s # <<>>

\* C12: an invocation starts in Validating and every step of it either enters
\* the next phase of Validating, Encoding, Calling-Provider, Extracting,
\* Normalizing, and then only after the phase it leaves has succeeded, or ends
\* the invocation with a response; a failure ends it at once with an error
\* response, no phase is entered twice, and Normalizing is entered only with
\* the text Extracting found.
C12_PhasesInOrder == (pc = "Validating") /\ [][PhaseStep]_vars

C12_Witness ==
    /\ pc = "Done"
    /\ variant \in StructuredVariants
    /\ thrown = Undefined
    /\ imagePart # Undefined
    /\ Len(providerCalls) = 1
    /\ generatedText = FirstText(response)
    /\ result.status = 500
    /\ "gemini_raw_output" \in DOMAIN result.body
    /\ log = <<"JSON Parsing Failed:">>

\* C13: in the two cross-origin versions every response of POST, whatever its
\* status (200, 400, 403, 500, the one of the outermost catch block included),
\* carries the headers the OPTIONS handler answers with: any origin, the
\* methods POST and OPTIONS, the headers Content-Type and Authorization.
C13_EveryResponseHasCorsHeaders ==
    (variant \in CorsVariants /\ pc = "Done") =>
        /\ result # NoResult
        /\ result.headers = OPTIONS.headers
        /\ result.headers.allowOrigin = "*"
        /\ result.headers.allowMethods = "POST, OPTIONS"
        /\ result.headers.allowHeaders = "Content-Type, Authorization"

C13_Witness ==
    /\ variant = "structured_cors"
    /\ pc = "Done"
    /\ thrown = ErrorOf("fetch failed")
    /\ providerCalls = <<>>
    /\ result.status = 500
    /\ result.headers = corsHeaders

====
